---------------------------- MODULE Spec2Model ----------------------------
(***************************************************************************)
(* UpstreamGate: a CONNECT-tunnel gateway with a per-user upstream         *)
(* registry (upstreams), a per-user registry of live client connections   *)
(* (userConns), an admin handler that replaces a user's upstream and      *)
(* closes that user's connections, and a tunnel handler that registers,   *)
(* dials and relays.                                                       *)
(*                                                                         *)
(* Strings are sequences of one-character strings, so that the header      *)
(* splitting, base64 decoding and URL parsing are computed, not assumed.   *)
(***************************************************************************)
EXTENDS Integers, Sequences, FiniteSets, TLC

(***************************************************************************)
(* Bounds of the model.                                                    *)
(***************************************************************************)
\* number of tunnel-endpoint requests (each with its own client connection)
NumTunnels == 2
\* number of admin-endpoint requests
NumAdmins == 2

Tunnels == 1..NumTunnels
Admins == 1..NumAdmins

(***************************************************************************)
(* String helpers (package strings).                                       *)
(***************************************************************************)
UpperChars ==
  <<"A","B","C","D","E","F","G","H","I","J","K","L","M",
    "N","O","P","Q","R","S","T","U","V","W","X","Y","Z">>

LowerChars ==
  <<"a","b","c","d","e","f","g","h","i","j","k","l","m",
    "n","o","p","q","r","s","t","u","v","w","x","y","z">>

DigitChars == <<"0","1","2","3","4","5","6","7","8","9">>

\* the values of a sequence
Range(s) == { s[i] : i \in DOMAIN s }

\* strings.Index for a one-character separator: first position of c in s, 0 if none
IndexOf(s, c) ==
  IF \E i \in DOMAIN s : s[i] = c
  THEN CHOOSE i \in DOMAIN s : s[i] = c /\ \A j \in 1..(i - 1) : s[j] # c
  ELSE 0

\* strings.LastIndex for a one-character separator, 0 if none
LastIndexOf(s, c) ==
  IF \E i \in DOMAIN s : s[i] = c
  THEN CHOOSE i \in DOMAIN s : s[i] = c /\ \A j \in (i + 1)..Len(s) : s[j] # c
  ELSE 0

\* strings.ToLower, on ASCII
ToLower(s) ==
  [ i \in DOMAIN s |->
      IF \E k \in DOMAIN UpperChars : UpperChars[k] = s[i]
      THEN LowerChars[CHOOSE k \in DOMAIN UpperChars : UpperChars[k] = s[i]]
      ELSE s[i] ]

\* strings.SplitN(s, sep, 2) for a one-character separator
SplitN2(s, sep) ==
  LET i == IndexOf(s, sep)
  IN  IF i = 0 THEN << s >>
      ELSE << SubSeq(s, 1, i - 1), SubSeq(s, i + 1, Len(s)) >>

(***************************************************************************)
(* base64.StdEncoding.DecodeString                                         *)
(***************************************************************************)
B64Chars ==
  UpperChars \o LowerChars \o DigitChars \o <<"+", "/">>

\* a decoded byte as a character: letters, digits, space and colon (the
\* credentials of the sample headers hold no other byte)
Chr(b) ==
  IF b >= 48 /\ b <= 57 THEN DigitChars[b - 47]
  ELSE IF b >= 65 /\ b <= 90 THEN UpperChars[b - 64]
  ELSE IF b >= 97 /\ b <= 122 THEN LowerChars[b - 96]
  ELSE IF b = 58 THEN ":"
  ELSE IF b = 32 THEN " "
  ELSE b

B64Val(c) == (CHOOSE k \in DOMAIN B64Chars : B64Chars[k] = c) - 1

IsB64(c) == \E k \in DOMAIN B64Chars : B64Chars[k] = c

\* one quantum of four characters; the last one may be padded with = or ==
B64Quantum(q, last) ==
  LET v(i) == B64Val(q[i])
  IN  IF IsB64(q[1]) /\ IsB64(q[2]) /\ IsB64(q[3]) /\ IsB64(q[4])
      THEN [ err |-> FALSE,
             bytes |-> << Chr(v(1) * 4 + v(2) \div 16),
                          Chr((v(2) % 16) * 16 + v(3) \div 4),
                          Chr((v(3) % 4) * 64 + v(4)) >> ]
      ELSE IF last /\ IsB64(q[1]) /\ IsB64(q[2]) /\ IsB64(q[3]) /\ q[4] = "="
      THEN [ err |-> FALSE,
             bytes |-> << Chr(v(1) * 4 + v(2) \div 16),
                          Chr((v(2) % 16) * 16 + v(3) \div 4) >> ]
      ELSE IF last /\ IsB64(q[1]) /\ IsB64(q[2]) /\ q[3] = "=" /\ q[4] = "="
      THEN [ err |-> FALSE, bytes |-> << Chr(v(1) * 4 + v(2) \div 16) >> ]
      ELSE [ err |-> TRUE, bytes |-> << >> ]

RECURSIVE DecodeString(_)
DecodeString(s) ==
  IF Len(s) = 0 THEN [ err |-> FALSE, bytes |-> << >> ]
  ELSE IF Len(s) < 4 THEN [ err |-> TRUE, bytes |-> << >> ]
  ELSE LET q == B64Quantum(SubSeq(s, 1, 4), Len(s) = 4)
           rest == DecodeString(SubSeq(s, 5, Len(s)))
       IN  IF q.err \/ rest.err THEN [ err |-> TRUE, bytes |-> << >> ]
           ELSE [ err |-> FALSE, bytes |-> q.bytes \o rest.bytes ]

\* the bytes Chr maps to a character
CharBytes == (48..57) \cup (65..90) \cup (97..122) \cup {58, 32}

\* the byte of a character
Ord(c) == CHOOSE b \in CharBytes : Chr(b) = c

\* base64.StdEncoding.EncodeToString: three bytes to four characters, the
\* last group padded with = or ==
RECURSIVE EncodeToString(_)
EncodeToString(s) ==
  LET c(v) == B64Chars[v + 1]
      b(i) == Ord(s[i])
  IN  IF Len(s) = 0 THEN << >>
      ELSE IF Len(s) = 1
      THEN << c(b(1) \div 4), c((b(1) % 4) * 16), "=", "=" >>
      ELSE IF Len(s) = 2
      THEN << c(b(1) \div 4), c((b(1) % 4) * 16 + b(2) \div 16),
              c((b(2) % 16) * 4), "=" >>
      ELSE << c(b(1) \div 4), c((b(1) % 4) * 16 + b(2) \div 16),
              c((b(2) % 16) * 4 + b(3) \div 64), c(b(3) % 64) >>
           \o EncodeToString(SubSeq(s, 4, Len(s)))

(***************************************************************************)
(* usernameFromRequest: the user name of a Proxy-Authorization header.     *)
(* An absent header reads as the empty string.                             *)
(***************************************************************************)
\* faulty variant: the scheme token is not compared with "basic"
usernameFromRequest_AnyScheme(auth) ==
  IF auth = << >> THEN [ user |-> << >>, err |-> "no auth" ]
  ELSE LET parts == SplitN2(auth, " ")
       IN  IF Len(parts) # 2
           THEN [ user |-> << >>, err |-> "unsupported auth" ]
           ELSE LET b == DecodeString(parts[2])
                IN  IF b.err THEN [ user |-> << >>, err |-> "illegal base64 data" ]
                    ELSE [ user |-> SplitN2(b.bytes, ":")[1], err |-> "nil" ]

usernameFromRequest(auth) ==
  IF auth = << >> THEN [ user |-> << >>, err |-> "no auth" ]
  ELSE LET parts == SplitN2(auth, " ")
       IN  IF Len(parts) # 2 \/ ToLower(parts[1]) # <<"b","a","s","i","c">>
           THEN [ user |-> << >>, err |-> "unsupported auth" ]
           ELSE LET b == DecodeString(parts[2])
                IN  IF b.err THEN [ user |-> << >>, err |-> "illegal base64 data" ]
                    ELSE [ user |-> SplitN2(b.bytes, ":")[1], err |-> "nil" ]

(***************************************************************************)
(* url.Parse, as far as setUpstreamHandler and dialerFor depend on it: the *)
(* scheme, the authority (userinfo and host) and the errors of a missing   *)
(* scheme, a colon in the first path segment and an invalid port.          *)
(***************************************************************************)
IsLetter(c) ==
  \/ \E k \in DOMAIN UpperChars : UpperChars[k] = c
  \/ \E k \in DOMAIN LowerChars : LowerChars[k] = c

IsDigit(c) == \E k \in DOMAIN DigitChars : DigitChars[k] = c

HasPrefix(s, p) == Len(s) >= Len(p) /\ SubSeq(s, 1, Len(p)) = p

NoUser == [ set |-> FALSE, Username |-> << >>, Password |-> << >> ]

\* getScheme, scanning from position i
RECURSIVE getSchemeFrom(_, _)
getSchemeFrom(raw, i) ==
  IF i > Len(raw) THEN [ scheme |-> << >>, rest |-> raw, err |-> FALSE ]
  ELSE IF IsLetter(raw[i]) THEN getSchemeFrom(raw, i + 1)
  ELSE IF IsDigit(raw[i]) \/ raw[i] \in {"+", "-", "."}
  THEN IF i = 1 THEN [ scheme |-> << >>, rest |-> raw, err |-> FALSE ]
       ELSE getSchemeFrom(raw, i + 1)
  ELSE IF raw[i] = ":"
  THEN IF i = 1 THEN [ scheme |-> << >>, rest |-> << >>, err |-> TRUE ]
       ELSE [ scheme |-> SubSeq(raw, 1, i - 1),
              rest |-> SubSeq(raw, i + 1, Len(raw)), err |-> FALSE ]
  ELSE [ scheme |-> << >>, rest |-> raw, err |-> FALSE ]

getScheme(raw) == getSchemeFrom(raw, 1)

\* validOptionalPort: empty, or a colon followed by digits only
validOptionalPort(port) ==
  \/ port = << >>
  \/ /\ port[1] = ":"
     /\ \A i \in 2..Len(port) : IsDigit(port[i])

\* faulty variant: the port is not validated
parseAuthority_AnyPort(authority) ==
  LET at == LastIndexOf(authority, "@")
      userinfo == SubSeq(authority, 1, at - 1)
      up == SplitN2(userinfo, ":")
  IN  [ err |-> FALSE,
        Host |-> SubSeq(authority, at + 1, Len(authority)),
        User |-> IF at = 0 THEN NoUser
                 ELSE [ set |-> TRUE, Username |-> up[1],
                        Password |-> IF Len(up) = 2 THEN up[2] ELSE << >> ] ]

\* parseAuthority: [user:pass@]host[:port]
parseAuthority(authority) ==
  LET at == LastIndexOf(authority, "@")
      host == SubSeq(authority, at + 1, Len(authority))
      colon == LastIndexOf(host, ":")
      portOk == colon = 0 \/ validOptionalPort(SubSeq(host, colon, Len(host)))
      userinfo == SubSeq(authority, 1, at - 1)
      up == SplitN2(userinfo, ":")
  IN  [ err |-> ~portOk,
        Host |-> host,
        User |-> IF at = 0 THEN NoUser
                 ELSE [ set |-> TRUE, Username |-> up[1],
                        Password |-> IF Len(up) = 2 THEN up[2] ELSE << >> ] ]

ParseError == [ err |-> TRUE, Scheme |-> << >>, Host |-> << >>, User |-> NoUser ]

urlParse(raw) ==
  LET s == getScheme(raw)
      scheme == ToLower(s.scheme)
      rest == s.rest
      slash == IndexOf(rest, "/")
      segment == IF slash = 0 THEN rest ELSE SubSeq(rest, 1, slash - 1)
  IN  IF s.err THEN ParseError
      ELSE IF ~HasPrefix(rest, <<"/">>)
      THEN IF scheme # << >>
           THEN [ err |-> FALSE, Scheme |-> scheme, Host |-> << >>, User |-> NoUser ]
           ELSE IF IndexOf(segment, ":") # 0 THEN ParseError
           ELSE [ err |-> FALSE, Scheme |-> scheme, Host |-> << >>, User |-> NoUser ]
      ELSE IF HasPrefix(rest, <<"/", "/">>) /\ (scheme # << >> \/ ~HasPrefix(rest, <<"/", "/", "/">>))
      THEN LET after == SubSeq(rest, 3, Len(rest))
               cut == IndexOf(after, "/")
               authority == IF cut = 0 THEN after ELSE SubSeq(after, 1, cut - 1)
               a == parseAuthority(authority)
           IN  IF a.err THEN ParseError
               ELSE [ err |-> FALSE, Scheme |-> scheme, Host |-> a.Host, User |-> a.User ]
      ELSE [ err |-> FALSE, Scheme |-> scheme, Host |-> << >>, User |-> NoUser ]

\* the Upstream value setUpstreamHandler stores for a parsed string
Upstream(raw) ==
  LET u == urlParse(raw)
  IN  [ Raw |-> raw, Scheme |-> u.Scheme, Host |-> u.Host, User |-> u.User ]

\* the value pickUpstreamFor returns for a user without an entry
DirectUpstream ==
  [ Raw |-> <<"d","i","r","e","c","t">>, Scheme |-> <<"d","i","r","e","c","t">>,
    Host |-> << >>, User |-> NoUser ]

(***************************************************************************)
(* dialerFor: the dialer an Upstream is turned into, or an error.          *)
(***************************************************************************)
NoDialer == [ kind |-> "none", Host |-> << >>, User |-> NoUser ]

dialerFor(up) ==
  IF up.Scheme = <<"d","i","r","e","c","t">>
  THEN [ err |-> FALSE,
         dialer |-> [ kind |-> "environment", Host |-> << >>, User |-> NoUser ] ]
  ELSE IF up.Scheme = <<"s","o","c","k","s","5">>
  THEN [ err |-> FALSE,
         dialer |-> [ kind |-> "socks5", Host |-> up.Host, User |-> up.User ] ]
  ELSE IF up.Scheme \in { <<"h","t","t","p">>, <<"h","t","t","p","s">> }
  THEN [ err |-> FALSE,
         dialer |-> [ kind |-> "httpConnect", Host |-> up.Host, User |-> up.User ] ]
  ELSE [ err |-> TRUE, dialer |-> NoDialer ]

(***************************************************************************)
(* Sample requests.                                                        *)
(***************************************************************************)
UserA == <<"a">>
UserB == <<"b">>

\* Proxy-Authorization values: a:p, b:p (upper-case scheme token), none,
\* a non-Basic scheme, a scheme token without credentials, undecodable base64
AuthA == <<"B","a","s","i","c"," ","Y","T","p","w">>
AuthB == <<"B","A","S","I","C"," ","Y","j","p","w">>
AuthNone == << >>
AuthBearer == <<"B","e","a","r","e","r"," ","Y","T","p","w">>
AuthNoSpace == <<"B","a","s","i","c">>
AuthBadB64 == <<"B","a","s","i","c"," ","Y","T","p">>

GoodAuths == { AuthA, AuthB }
BadAuths == { AuthNone, AuthBearer, AuthNoSpace, AuthBadB64 }

\* upstream strings of admin requests
RawSocks == <<"s","o","c","k","s","5",":","/","/","h",":","1">>
RawHttp == <<"h","t","t","p",":","/","/","u",":","p","@","h",":","8">>
RawHttps == <<"h","t","t","p","s",":","/","/","h",":","8">>
RawDirect == <<"d","i","r","e","c","t",":","/","/">>
RawFtp == <<"f","t","p",":","/","/","h">>
RawNoScheme == <<":","x">>
RawBadPort == <<"h","t","t","p",":","/","/","h",":","x">>

\* an admin request body: JSON that does not decode, or an object whose
\* absent fields decode to the empty string
Body(user, raw) == [ json |-> TRUE, User |-> user, Upstream |-> raw ]
GarbageBody == [ json |-> FALSE, User |-> << >>, Upstream |-> << >> ]

(***************************************************************************)
(* State.  A handler's locals exist while it runs; they are cleared when   *)
(* it returns.  What outlives it is what it wrote and the connections.     *)
(***************************************************************************)
VARIABLES
  upstreams,    \* map user -> Upstream (the domain is the set of keys)
  userConns,    \* map user -> sequence of client connections
  tpc,          \* tunnel handler: position in proxyHandler
  treq,         \* tunnel request: [auth, method]
  tuser,        \* proxyHandler's user
  tup,          \* proxyHandler's up
  tresp,        \* response written through the ResponseWriter: [status, challenge]
  clientConn,   \* client connection: "http" (owned by the server), "open", "closed"
  targetConn,   \* target connection: "none", "open", "closed"
  wrote,        \* status lines written on the hijacked client connection
  dialedVia,    \* the dialer whose Dial the handler has called
  copying,      \* relay's copy goroutines still inside io.Copy (the two run the
                \* same code, so they are counted, not told apart)
  done,         \* relay's done channel: number of buffered values
  apc,          \* admin handler: position in setUpstreamHandler
  areq,         \* admin request: [method, body]
  auser,        \* req.User
  aup,          \* the Upstream built from req.Upstream
  conns,        \* closeUserConns' conns
  closed,       \* closeUserConns: number of conns the loop has closed
  astatus,      \* admin response status, 0 while none is written
  registered,   \* history: the connections for which registerConn has completed
  drainSaw,     \* history: per admin request, the connections of running handlers
                \* that were registered for its user when it drained
  lastSet,      \* history: per user, the upstream string of the last replacement
  pickSaw,      \* history: per tunnel, lastSet of its user at its lookup
  overwrittenBy,  \* history: per tunnel, the update request whose replacement
                  \* first overwrote the entry the tunnel looked up, 0 if none
  regAfterDrain,  \* history: per tunnel, whether that update had drained when
                  \* the tunnel registered
  betweenSaw,     \* history: per update request between its replacement and its
                  \* drain, the connections registered for its user since the
                  \* replacement
  spc,          \* byte-level tunnel: position of its handler
  cOut,         \* bytes the client has sent after the head of its CONNECT request
  cIn,          \* bytes of the client that have arrived and were not read yet
  bufrw,        \* bytes read ahead into the buffered reader Hijack returns
  toTarget,     \* bytes written to the target connection
  sdial,        \* the dialer of the byte-level tunnel
  dconn,        \* the connection httpConnectDialer.Dial opens (relay's b once
                \* Dial has returned it): "none", "open", "closed"
  dreq,         \* the CONNECT request Dial has written
  derr,         \* whether Dial returned an error
  uHead,        \* status of the response head the upstream has sent, 0 if none
  uOut,         \* bytes the upstream has sent after its response head
  uIn,          \* bytes of the upstream that have arrived and were not read yet
  br,           \* bytes read ahead into Dial's bufio.Reader
  toClient      \* bytes written to the client connection after the status line

tvars == << tpc, treq, tuser, tup, tresp, clientConn, targetConn, wrote, dialedVia,
            copying, done >>
avars == << apc, areq, auser, aup, conns, closed, astatus >>
hvars == << registered, drainSaw, lastSet, pickSaw >>
ovars == << overwrittenBy, regAfterDrain, betweenSaw >>
svars == << spc, cOut, cIn, bufrw, toTarget, sdial, dconn, dreq, derr,
            uHead, uOut, uIn, br, toClient >>
vars == << upstreams, userConns, tvars, avars, hvars, ovars, svars >>

NoUpstream == [ Raw |-> << >>, Scheme |-> << >>, Host |-> << >>, User |-> NoUser ]
NoReq == [ auth |-> << >>, method |-> "" ]
NoAdminReq == [ method |-> "", body |-> GarbageBody ]
NoResp == [ status |-> 0, challenge |-> FALSE ]
NoPick == [ set |-> FALSE, raw |-> << >> ]
NoDialReq == [ target |-> << >>, Host |-> << >>, basic |-> << >> ]

\* the state after construction, but for the upstream registry
InitRest ==
  /\ userConns = << >>
  /\ tpc = [ t \in Tunnels |-> "idle" ]
  /\ treq = [ t \in Tunnels |-> NoReq ]
  /\ tuser = [ t \in Tunnels |-> << >> ]
  /\ tup = [ t \in Tunnels |-> NoUpstream ]
  /\ tresp = [ t \in Tunnels |-> NoResp ]
  /\ clientConn = [ t \in Tunnels |-> "http" ]
  /\ targetConn = [ t \in Tunnels |-> "none" ]
  /\ wrote = [ t \in Tunnels |-> << >> ]
  /\ dialedVia = [ t \in Tunnels |-> NoDialer ]
  /\ copying = [ t \in Tunnels |-> 0 ]
  /\ done = [ t \in Tunnels |-> 0 ]
  /\ apc = [ a \in Admins |-> "idle" ]
  /\ areq = [ a \in Admins |-> NoAdminReq ]
  /\ auser = [ a \in Admins |-> << >> ]
  /\ aup = [ a \in Admins |-> NoUpstream ]
  /\ conns = [ a \in Admins |-> << >> ]
  /\ closed = [ a \in Admins |-> 0 ]
  /\ astatus = [ a \in Admins |-> 0 ]
  /\ registered = {}
  /\ drainSaw = [ a \in Admins |-> {} ]
  /\ pickSaw = [ t \in Tunnels |-> NoPick ]
  /\ overwrittenBy = [ t \in Tunnels |-> 0 ]
  /\ regAfterDrain = [ t \in Tunnels |-> FALSE ]
  /\ betweenSaw = [ a \in Admins |-> {} ]
  /\ spc = "accept"
  /\ cOut = << >> /\ cIn = << >> /\ bufrw = << >> /\ toTarget = << >>
  /\ sdial = NoDialer /\ dconn = "none" /\ dreq = NoDialReq /\ derr = FALSE
  /\ uHead = 0
  /\ uOut = << >> /\ uIn = << >> /\ br = << >> /\ toClient = << >>

Init ==
  /\ upstreams = << >>
  /\ lastSet = << >>
  /\ InitRest

\* a Go map with key k set to v
MapSet(m, k, v) == [ x \in DOMAIN m \cup {k} |-> IF x = k THEN v ELSE m[x] ]
\* delete(m, k)
MapDelete(m, k) == [ x \in DOMAIN m \ {k} |-> m[x] ]
\* m[k] of a map of slices, nil when the key is absent
ConnsOf(m, k) == IF k \in DOMAIN m THEN m[k] ELSE << >>

(***************************************************************************)
(* Registry helpers.                                                       *)
(***************************************************************************)
\* faulty variant: the appended slice is not stored back
registerConn_NotStored(m, user, conn) == m

\* registerConn: userConns[user] = append(userConns[user], conn)
registerConn(m, user, conn) == MapSet(m, user, Append(ConnsOf(m, user), conn))

\* faulty variant: the lookup ignores the user and returns some stored entry
pickUpstreamFor_AnyUser(auth) ==
  IF DOMAIN upstreams # {}
  THEN upstreams[CHOOSE u \in DOMAIN upstreams : TRUE]
  ELSE DirectUpstream

\* pickUpstreamFor: the entry of the request's user, the direct default if none
pickUpstreamFor(auth) ==
  LET user == usernameFromRequest(auth).user
  IN  IF user \in DOMAIN upstreams THEN upstreams[user] ELSE DirectUpstream

\* the connections a registry value holds
Held(m) == UNION { Range(m[u]) : u \in DOMAIN m }

(***************************************************************************)
(* proxyHandler                                                            *)
(***************************************************************************)
\* the listener hands a request that is not for /upstream to proxyHandler
ProxyAccept(t, auth, method) ==
  /\ tpc[t] = "idle"
  /\ IF t = 1 THEN TRUE ELSE tpc[t - 1] # "idle"
  /\ treq' = [ treq EXCEPT ![t] = [ auth |-> auth, method |-> method ] ]
  /\ tpc' = [ tpc EXCEPT ![t] = "begin" ]
  /\ UNCHANGED << upstreams, userConns, tuser, tup, tresp, clientConn, targetConn,
                  wrote, dialedVia, copying, done, avars, hvars, ovars >>
  /\ UNCHANGED svars

\* the handler returns: its locals are gone
Return(t) ==
  /\ tpc' = [ tpc EXCEPT ![t] = "done" ]
  /\ treq' = [ treq EXCEPT ![t] = NoReq ]
  /\ tuser' = [ tuser EXCEPT ![t] = << >> ]
  /\ tup' = [ tup EXCEPT ![t] = NoUpstream ]
  /\ dialedVia' = [ dialedVia EXCEPT ![t] = NoDialer ]
  /\ pickSaw' = [ pickSaw EXCEPT ![t] = NoPick ]
  /\ overwrittenBy' = [ overwrittenBy EXCEPT ![t] = 0 ]
  /\ regAfterDrain' = [ regAfterDrain EXCEPT ![t] = FALSE ]

\* http.Error / WriteHeader, then return
Respond(t, status, challenge) ==
  /\ tresp' = [ tresp EXCEPT ![t] = [ status |-> status, challenge |-> challenge ] ]
  /\ Return(t)

\* Lines 183-211: credential extraction, upstream lookup, dialer construction,
\* method check and hijack.  Only the lookup reads shared state, so the
\* steps around it are taken with it.  hijack is what the ResponseWriter
\* does: "ok", "unsupported" (it is no http.Hijacker) or "error".
ProxyBegin(t, hijack) ==
  /\ tpc[t] = "begin"
  /\ LET auth == treq[t].auth
         u == usernameFromRequest(auth)
         up == pickUpstreamFor(auth)
     IN  IF u.err # "nil"
         THEN Respond(t, 407, TRUE) /\ UNCHANGED clientConn
         ELSE IF dialerFor(up).err
         THEN Respond(t, 500, FALSE) /\ UNCHANGED clientConn
         ELSE IF treq[t].method # "CONNECT"
         THEN Respond(t, 400, FALSE) /\ UNCHANGED clientConn
         ELSE IF hijack = "unsupported"
         THEN Respond(t, 500, FALSE) /\ UNCHANGED clientConn
         ELSE IF hijack = "error"
         THEN Return(t) /\ UNCHANGED << tresp, clientConn >>
         ELSE /\ tuser' = [ tuser EXCEPT ![t] = u.user ]
              /\ tup' = [ tup EXCEPT ![t] = up ]
              /\ pickSaw' = [ pickSaw EXCEPT ![t] =
                   IF u.user \in DOMAIN lastSet
                   THEN [ set |-> TRUE, raw |-> lastSet[u.user] ] ELSE NoPick ]
              /\ clientConn' = [ clientConn EXCEPT ![t] = "open" ]
              /\ tpc' = [ tpc EXCEPT ![t] = "register" ]
              /\ UNCHANGED << treq, tresp, dialedVia, overwrittenBy, regAfterDrain >>
  /\ UNCHANGED << upstreams, userConns, targetConn, wrote, copying, done,
                  avars, registered, drainSaw, lastSet, betweenSaw >>
  /\ UNCHANGED svars

\* Line 214: registerConn(user, clientConn)
ProxyRegister(t) ==
  /\ tpc[t] = "register"
  /\ userConns' = registerConn(userConns, tuser[t], t)
  /\ registered' = registered \cup Held(userConns')
  /\ regAfterDrain' = [ regAfterDrain EXCEPT ![t] =
       /\ overwrittenBy[t] # 0
       /\ apc[overwrittenBy[t]] \in { "closing", "done" } ]
  /\ betweenSaw' = [ a \in Admins |->
       IF apc[a] = "drain" /\ areq[a].body.User = tuser[t]
       THEN betweenSaw[a] \cup {t} ELSE betweenSaw[a] ]
  /\ tpc' = [ tpc EXCEPT ![t] = "dial" ]
  /\ UNCHANGED << upstreams, treq, tuser, tup, tresp, clientConn, targetConn,
                  wrote, dialedVia, copying, done, avars, drainSaw, lastSet, pickSaw,
                  overwrittenBy >>
  /\ UNCHANGED svars

\* the status lines of lines 218 and 223
Line200 == "200 Connection established"
Line502 == "502 Bad Gateway"

\* net.Conn.Write on the client connection: nothing is written once it is closed
ConnWrite(t, line) == IF clientConn[t] = "open" THEN Append(wrote[t], line) ELSE wrote[t]

\* faulty variant: the client connection is left open after a failed dial
ProxyDial_NoClose(t, ok) ==
  /\ tpc[t] = "dial"
  /\ IF ok
     THEN /\ targetConn' = [ targetConn EXCEPT ![t] = "open" ]
          /\ wrote' = [ wrote EXCEPT ![t] = ConnWrite(t, "200 Connection established") ]
          /\ copying' = [ copying EXCEPT ![t] = 2 ]
          /\ tpc' = [ tpc EXCEPT ![t] = "relay" ]
          /\ dialedVia' = [ dialedVia EXCEPT ![t] = dialerFor(tup[t]).dialer ]
          /\ UNCHANGED << clientConn, treq, tuser, tup, pickSaw, overwrittenBy,
                          regAfterDrain >>
     ELSE /\ wrote' = [ wrote EXCEPT ![t] = ConnWrite(t, "502 Bad Gateway") ]
          /\ Return(t)
          /\ UNCHANGED << clientConn, targetConn, copying >>
  /\ UNCHANGED << upstreams, userConns, tresp, done, avars, registered, drainSaw, lastSet,
                  betweenSaw >>
  /\ UNCHANGED svars

\* Lines 216-224 up to the start of relay: dialerFor(up)'s Dial returns and
\* the status line is written; on failure the client connection is closed and
\* the handler returns, on success relay starts its two copy goroutines.
ProxyDial(t, ok) ==
  /\ tpc[t] = "dial"
  /\ IF ok
     THEN /\ targetConn' = [ targetConn EXCEPT ![t] = "open" ]
          /\ wrote' = [ wrote EXCEPT ![t] = ConnWrite(t, "200 Connection established") ]
          /\ copying' = [ copying EXCEPT ![t] = 2 ]
          /\ tpc' = [ tpc EXCEPT ![t] = "relay" ]
          /\ dialedVia' = [ dialedVia EXCEPT ![t] = dialerFor(tup[t]).dialer ]
          /\ UNCHANGED << clientConn, treq, tuser, tup, pickSaw, overwrittenBy,
                          regAfterDrain >>
     ELSE /\ wrote' = [ wrote EXCEPT ![t] = ConnWrite(t, "502 Bad Gateway") ]
          /\ clientConn' = [ clientConn EXCEPT ![t] = "closed" ]
          /\ Return(t)
          /\ UNCHANGED << targetConn, copying >>
  /\ UNCHANGED << upstreams, userConns, tresp, done, avars, registered, drainSaw, lastSet,
                  betweenSaw >>
  /\ UNCHANGED svars

(***************************************************************************)
(* relay                                                                   *)
(***************************************************************************)
\* Line 176: the capacity of done
DoneCap == 2

\* faulty variant: the goroutine ends without sending on done
RelayCopyEnd_NoSend(t) ==
  /\ copying[t] > 0
  /\ copying' = [ copying EXCEPT ![t] = @ - 1 ]
  /\ UNCHANGED << upstreams, userConns, tpc, treq, tuser, tup, tresp,
                  clientConn, targetConn, wrote, dialedVia, done, avars, hvars, ovars >>
  /\ UNCHANGED svars

\* Lines 177-178: one io.Copy returns (end of stream or error) and its
\* goroutine sends on done; the send waits while done is full.
RelayCopyEnd(t) ==
  /\ copying[t] > 0
  /\ done[t] < DoneCap
  /\ copying' = [ copying EXCEPT ![t] = @ - 1 ]
  /\ done' = [ done EXCEPT ![t] = @ + 1 ]
  /\ UNCHANGED << upstreams, userConns, tpc, treq, tuser, tup, tresp,
                  clientConn, targetConn, wrote, dialedVia, avars, hvars, ovars >>
  /\ UNCHANGED svars

\* faulty variant: relay returns without closing either connection
RelayReturn_NoClose(t) ==
  /\ tpc[t] = "relay"
  /\ done[t] >= 1
  /\ done' = [ done EXCEPT ![t] = @ - 1 ]
  /\ Return(t)
  /\ UNCHANGED << upstreams, userConns, tresp, clientConn, targetConn, wrote, copying,
                  avars, registered, drainSaw, lastSet, betweenSaw >>
  /\ UNCHANGED svars

\* faulty variant: only the client connection is closed when relay returns
RelayReturn_LeavesTarget(t) ==
  /\ tpc[t] = "relay"
  /\ done[t] >= 1
  /\ done' = [ done EXCEPT ![t] = @ - 1 ]
  /\ clientConn' = [ clientConn EXCEPT ![t] = "closed" ]
  /\ Return(t)
  /\ UNCHANGED << upstreams, userConns, tresp, targetConn, wrote, copying, avars,
                  registered, drainSaw, lastSet, betweenSaw >>
  /\ UNCHANGED svars

\* Lines 179, 174-175: the first value is received from done, the deferred
\* b.Close() and a.Close() run and proxyHandler returns.
RelayReturn(t) ==
  /\ tpc[t] = "relay"
  /\ done[t] >= 1
  /\ done' = [ done EXCEPT ![t] = @ - 1 ]
  /\ targetConn' = [ targetConn EXCEPT ![t] = "closed" ]
  /\ clientConn' = [ clientConn EXCEPT ![t] = "closed" ]
  /\ Return(t)
  /\ UNCHANGED << upstreams, userConns, tresp, wrote, copying, avars,
                  registered, drainSaw, lastSet, betweenSaw >>
  /\ UNCHANGED svars

(***************************************************************************)
(* setUpstreamHandler and closeUserConns                                   *)
(***************************************************************************)
\* the listener hands a request for /upstream to setUpstreamHandler
SetUpstreamAccept(a, method, body) ==
  /\ apc[a] = "idle"
  /\ IF a = 1 THEN TRUE ELSE apc[a - 1] # "idle"
  /\ areq' = [ areq EXCEPT ![a] = [ method |-> method, body |-> body ] ]
  /\ apc' = [ apc EXCEPT ![a] = "begin" ]
  /\ UNCHANGED << upstreams, userConns, tvars, auser, aup, conns, closed, astatus,
                  hvars, ovars >>
  /\ UNCHANGED svars

\* the handler writes its status and returns: its locals are gone
AdminReturn(a, status) ==
  /\ astatus' = [ astatus EXCEPT ![a] = status ]
  /\ apc' = [ apc EXCEPT ![a] = "done" ]
  /\ areq' = [ areq EXCEPT ![a] = NoAdminReq ]
  /\ auser' = [ auser EXCEPT ![a] = << >> ]
  /\ aup' = [ aup EXCEPT ![a] = NoUpstream ]
  /\ conns' = [ conns EXCEPT ![a] = << >> ]
  /\ closed' = [ closed EXCEPT ![a] = 0 ]
  /\ drainSaw' = [ drainSaw EXCEPT ![a] = {} ]

\* Lines 54-74: method check, JSON decoding, url.Parse
SetUpstreamBegin(a) ==
  /\ apc[a] = "begin"
  /\ LET body == areq[a].body
     IN  IF areq[a].method # "POST" THEN AdminReturn(a, 405)
         ELSE IF ~body.json THEN AdminReturn(a, 400)
         ELSE IF urlParse(body.Upstream).err THEN AdminReturn(a, 400)
         ELSE /\ auser' = [ auser EXCEPT ![a] = body.User ]
              /\ aup' = [ aup EXCEPT ![a] = Upstream(body.Upstream) ]
              /\ apc' = [ apc EXCEPT ![a] = "replace" ]
              /\ UNCHANGED << areq, conns, closed, astatus, drainSaw >>
  /\ UNCHANGED << upstreams, userConns, tvars, registered, lastSet, pickSaw, ovars >>
  /\ UNCHANGED svars

\* the handler of t has looked its upstream up and has not returned
Looked(t) == tpc[t] \in { "register", "dial", "relay" }

\* faulty variant: an existing entry is kept, only a missing one is inserted
SetUpstreamReplace_KeepFirst(a) ==
  /\ apc[a] = "replace"
  /\ upstreams' = IF auser[a] \in DOMAIN upstreams THEN upstreams
                  ELSE MapSet(upstreams, auser[a], aup[a])
  /\ lastSet' = MapSet(lastSet, areq[a].body.User, areq[a].body.Upstream)
  /\ overwrittenBy' = [ t \in Tunnels |->
       IF Looked(t) /\ tuser[t] = areq[a].body.User /\ overwrittenBy[t] = 0
       THEN a ELSE overwrittenBy[t] ]
  /\ apc' = [ apc EXCEPT ![a] = "drain" ]
  /\ UNCHANGED << userConns, tvars, areq, auser, aup, conns, closed, astatus,
                  registered, drainSaw, pickSaw, regAfterDrain, betweenSaw >>
  /\ UNCHANGED svars

\* Lines 76-78: upstreams[req.User] = &Upstream{...} under upstreamsMu
SetUpstreamReplace(a) ==
  /\ apc[a] = "replace"
  /\ upstreams' = MapSet(upstreams, auser[a], aup[a])
  /\ lastSet' = MapSet(lastSet, areq[a].body.User, areq[a].body.Upstream)
  /\ overwrittenBy' = [ t \in Tunnels |->
       IF Looked(t) /\ tuser[t] = areq[a].body.User /\ overwrittenBy[t] = 0
       THEN a ELSE overwrittenBy[t] ]
  /\ apc' = [ apc EXCEPT ![a] = "drain" ]
  /\ UNCHANGED << userConns, tvars, areq, auser, aup, conns, closed, astatus,
                  registered, drainSaw, pickSaw, regAfterDrain, betweenSaw >>
  /\ UNCHANGED svars

\* faulty variant: the drain takes the connections of every user
CloseUserConnsDrain_AllUsers(a) ==
  /\ apc[a] = "drain"
  /\ conns' = [ conns EXCEPT ![a] =
       ConnsOf(userConns, UserA) \o ConnsOf(userConns, UserB) ]
  /\ userConns' = << >>
  /\ drainSaw' = [ drainSaw EXCEPT ![a] =
       { c \in registered : tpc[c] # "done" /\ tuser[c] = areq[a].body.User } ]
  /\ apc' = [ apc EXCEPT ![a] = "closing" ]
  /\ betweenSaw' = [ betweenSaw EXCEPT ![a] = {} ]
  /\ UNCHANGED << upstreams, tvars, areq, auser, aup, closed, astatus,
                  registered, lastSet, pickSaw, overwrittenBy, regAfterDrain >>
  /\ UNCHANGED svars

\* faulty variant: the drain runs on the entry as it was before the update's
\* replacement, missing the connections registered since
CloseUserConnsDrain_MissesLate(a) ==
  /\ apc[a] = "drain"
  /\ conns' = [ conns EXCEPT ![a] =
       SelectSeq(ConnsOf(userConns, auser[a]), LAMBDA c : c \notin betweenSaw[a]) ]
  /\ userConns' =
       IF \E c \in Range(ConnsOf(userConns, auser[a])) : c \in betweenSaw[a]
       THEN MapSet(userConns, auser[a],
              SelectSeq(ConnsOf(userConns, auser[a]), LAMBDA c : c \in betweenSaw[a]))
       ELSE MapDelete(userConns, auser[a])
  /\ drainSaw' = [ drainSaw EXCEPT ![a] =
       { c \in registered : tpc[c] # "done" /\ tuser[c] = areq[a].body.User } ]
  /\ apc' = [ apc EXCEPT ![a] = "closing" ]
  /\ betweenSaw' = [ betweenSaw EXCEPT ![a] = {} ]
  /\ UNCHANGED << upstreams, tvars, areq, auser, aup, closed, astatus,
                  registered, lastSet, pickSaw, overwrittenBy, regAfterDrain >>
  /\ UNCHANGED svars

\* Lines 43-46: conns := userConns[user]; delete(userConns, user) under userConnsMu
CloseUserConnsDrain(a) ==
  /\ apc[a] = "drain"
  /\ conns' = [ conns EXCEPT ![a] = ConnsOf(userConns, auser[a]) ]
  /\ userConns' = MapDelete(userConns, auser[a])
  /\ drainSaw' = [ drainSaw EXCEPT ![a] =
       { c \in registered : tpc[c] # "done" /\ tuser[c] = areq[a].body.User } ]
  /\ apc' = [ apc EXCEPT ![a] = "closing" ]
  /\ betweenSaw' = [ betweenSaw EXCEPT ![a] = {} ]
  /\ UNCHANGED << upstreams, tvars, areq, auser, aup, closed, astatus,
                  registered, lastSet, pickSaw, overwrittenBy, regAfterDrain >>
  /\ UNCHANGED svars

\* faulty variant: the loop steps over a connection without closing it
CloseUserConnsClose_NoClose(a) ==
  /\ apc[a] = "closing"
  /\ closed[a] < Len(conns[a])
  /\ closed' = [ closed EXCEPT ![a] = @ + 1 ]
  /\ UNCHANGED << upstreams, userConns, tvars, apc, areq, auser, aup, conns, astatus,
                  hvars, ovars >>
  /\ UNCHANGED svars

\* faulty variant: closing a connection that is already closed aborts the
\* handler, which answers 500 with the rest of its connections left open
CloseUserConnsClose_AbortsOnClosed(a) ==
  /\ apc[a] = "closing"
  /\ closed[a] < Len(conns[a])
  /\ IF clientConn[conns[a][closed[a] + 1]] = "closed"
     THEN AdminReturn(a, 500) /\ UNCHANGED clientConn
     ELSE /\ clientConn' = [ clientConn EXCEPT ![conns[a][closed[a] + 1]] = "closed" ]
          /\ closed' = [ closed EXCEPT ![a] = @ + 1 ]
          /\ UNCHANGED << apc, areq, auser, aup, conns, astatus, drainSaw >>
  /\ UNCHANGED << upstreams, userConns, tpc, treq, tuser, tup, tresp,
                  targetConn, wrote, dialedVia, copying, done,
                  registered, lastSet, pickSaw, ovars >>
  /\ UNCHANGED svars

\* Lines 47-49: one iteration of the loop, c.Close()
CloseUserConnsClose(a) ==
  /\ apc[a] = "closing"
  /\ closed[a] < Len(conns[a])
  /\ clientConn' = [ clientConn EXCEPT ![conns[a][closed[a] + 1]] = "closed" ]
  /\ closed' = [ closed EXCEPT ![a] = @ + 1 ]
  /\ UNCHANGED << upstreams, userConns, tpc, treq, tuser, tup, tresp,
                  targetConn, wrote, dialedVia, copying, done,
                  apc, areq, auser, aup, conns, astatus, hvars, ovars >>
  /\ UNCHANGED svars

\* Line 83: the loop is over, 204 is written and the handler returns
SetUpstreamRespond(a) ==
  /\ apc[a] = "closing"
  /\ closed[a] = Len(conns[a])
  /\ AdminReturn(a, 204)
  /\ UNCHANGED << upstreams, userConns, tvars, registered, lastSet, pickSaw, ovars >>
  /\ UNCHANGED svars

(***************************************************************************)
(* Specification Spec: well-formed requests of two users, in any           *)
(* interleaving of the handlers.                                           *)
(***************************************************************************)
Handle ==
  \/ \E t \in Tunnels : ProxyRegister(t)
  \/ \E t \in Tunnels, ok \in BOOLEAN : ProxyDial(t, ok)
  \/ \E t \in Tunnels : RelayCopyEnd(t)
  \/ \E t \in Tunnels : RelayReturn(t)
  \/ \E a \in Admins : SetUpstreamBegin(a)
  \/ \E a \in Admins : SetUpstreamReplace(a)
  \/ \E a \in Admins : CloseUserConnsDrain(a)
  \/ \E a \in Admins : CloseUserConnsClose(a)
  \/ \E a \in Admins : SetUpstreamRespond(a)

\* every update request carries its own upstream string
RawOf(a) == IF a % 2 = 1 THEN RawSocks ELSE RawHttp

Next ==
  \/ \E t \in Tunnels, auth \in GoodAuths : ProxyAccept(t, auth, "CONNECT")
  \/ \E t \in Tunnels : ProxyBegin(t, "ok")
  \/ \E a \in Admins, u \in { UserA, UserB } :
       SetUpstreamAccept(a, "POST", Body(u, RawOf(a)))
  \/ Handle

Spec == Init /\ [][Next]_vars

(***************************************************************************)
(* Specification SpecRequests: every sample request, well-formed or not,   *)
(* the requests being served one after the other.                          *)
(***************************************************************************)
Auths == GoodAuths \cup BadAuths
Methods == { "CONNECT", "GET" }
HijackOutcomes == { "ok", "unsupported", "error" }
AdminMethods == { "POST", "GET" }
Raws == { RawSocks, RawHttp, RawDirect, RawFtp, RawNoScheme, RawBadPort }
Bodies == { GarbageBody } \cup { Body(u, r) : u \in { UserA, UserB }, r \in Raws }

\* no handler is running
Quiet ==
  /\ \A t \in Tunnels : tpc[t] \in { "idle", "done" }
  /\ \A a \in Admins : apc[a] \in { "idle", "done" }

NextRequests ==
  \/ \E t \in Tunnels, auth \in Auths, m \in Methods : Quiet /\ ProxyAccept(t, auth, m)
  \/ \E t \in Tunnels, h \in HijackOutcomes : ProxyBegin(t, h)
  \/ \E a \in Admins, m \in AdminMethods, b \in Bodies :
       Quiet /\ SetUpstreamAccept(a, m, b)
  \/ Handle

SpecRequests == Init /\ [][NextRequests]_vars

(***************************************************************************)
(* Specification SpecLive: requests of one user, the handlers and a        *)
(* pending dial always going on, and a copy ending once the connection it  *)
(* reads is closed.  A copy on open connections may go on for ever.        *)
(***************************************************************************)
\* io.Copy returns because Read fails on a closed connection: the copy from
\* the client once the client connection is closed, the other one too once
\* the target connection is closed
CopyFails(t) ==
  /\ clientConn[t] = "closed"
  /\ copying[t] = 2 \/ targetConn[t] = "closed"
  /\ RelayCopyEnd(t)

NextLive ==
  \/ \E t \in Tunnels : ProxyAccept(t, AuthA, "CONNECT")
  \/ \E t \in Tunnels : ProxyBegin(t, "ok")
  \/ \E a \in Admins : SetUpstreamAccept(a, "POST", Body(UserA, RawOf(a)))
  \/ Handle

\* a step of a running handler past its first one, the return of a pending
\* dial, or the end of a copy whose connection is closed
Progress ==
  \/ \E t \in Tunnels : ProxyRegister(t)
  \/ \E t \in Tunnels, ok \in BOOLEAN : ProxyDial(t, ok)
  \/ \E t \in Tunnels : CopyFails(t)
  \/ \E t \in Tunnels : RelayReturn(t)
  \/ \E a \in Admins : SetUpstreamReplace(a)
  \/ \E a \in Admins : CloseUserConnsDrain(a)
  \/ \E a \in Admins : CloseUserConnsClose(a)
  \/ \E a \in Admins : SetUpstreamRespond(a)

\* The scheduler runs every goroutine that can run.  Every handler takes
\* finitely many steps, so for the steps of Progress this amounts to the
\* system not stopping while one of them can be taken.  The first step of a
\* handler (ProxyBegin, SetUpstreamBegin) can be taken exactly while its
\* handler is at "begin" and leaves that position, so weak fairness of it is
\* the handler not staying at "begin" for ever.
Fairness ==
  /\ WF_vars(Progress)
  /\ \A t \in Tunnels : []<>(tpc[t] # "begin")
  /\ \A a \in Admins : []<>(apc[a] # "begin")

SpecLive == Init /\ [][NextLive]_vars /\ Fairness

(***************************************************************************)
(* Specification SpecStream: the bytes of one tunnel of user a through an  *)
(* HTTP-CONNECT upstream, from the hijack to the end of relay.  The client *)
(* and the upstream send when they like; a Read takes what has arrived.    *)
(***************************************************************************)
\* number of payload bytes each side sends
MaxPayload == 2

\* r.Host of the CONNECT request
TargetAddr == <<"t",":","4","4","3">>

\* the upstream strings stored for user a
HttpRaws == { RawHttp, RawHttps }

\* the status codes the upstream answers with
Statuses == { 200, 407 }

\* what the byte-level steps leave alone
mainQuiet == << upstreams, tpc, treq, tuser, tup, tresp, targetConn, dialedVia,
                copying, done, avars, drainSaw, lastSet, pickSaw, ovars >>
connQuiet == << userConns, registered, clientConn, wrote >>

\* an update has stored an HTTP-CONNECT upstream for user a
InitStream ==
  /\ \E raw \in HttpRaws :
       /\ upstreams = MapSet(<< >>, UserA, Upstream(raw))
       /\ lastSet = MapSet(<< >>, UserA, raw)
  /\ InitRest

\* the client sends its next payload byte, before or after it has the reply
ClientSend ==
  /\ Len(cOut) < MaxPayload
  /\ clientConn[1] # "closed"
  /\ cOut' = Append(cOut, Len(cOut) + 1)
  /\ cIn' = Append(cIn, Len(cOut) + 1)
  /\ UNCHANGED << mainQuiet, connQuiet, spc, bufrw, toTarget, sdial, dconn, dreq, derr,
                  uHead, uOut, uIn, br, toClient >>

\* Lines 183-214 for a CONNECT request with the credentials of user a: the
\* server has read the head of the request together with what had arrived
\* behind it, Hijack hands over the connection and the buffered reader, and
\* the handler keeps the connection only; then it registers the connection.
ProxyHijack ==
  /\ spc = "accept"
  /\ LET u == usernameFromRequest(AuthA)
         d == dialerFor(pickUpstreamFor(AuthA))
     IN  /\ u.err = "nil" /\ ~d.err
         /\ sdial' = d.dialer
         /\ userConns' = registerConn(userConns, u.user, 1)
  /\ registered' = registered \cup Held(userConns')
  /\ clientConn' = [ clientConn EXCEPT ![1] = "open" ]
  /\ bufrw' = cIn
  /\ cIn' = << >>
  /\ spc' = "tcp"
  /\ UNCHANGED << mainQuiet, wrote, cOut, toTarget, dconn, dreq, derr,
                  uHead, uOut, uIn, br, toClient >>

\* Lines 139-142: net.DialTimeout to the upstream host
HttpConnectDialTimeout(ok) ==
  /\ spc = "tcp"
  /\ sdial.kind = "httpConnect"
  /\ IF ok
     THEN dconn' = "open" /\ spc' = "write" /\ UNCHANGED derr
     ELSE derr' = TRUE /\ spc' = "reply" /\ UNCHANGED dconn
  /\ UNCHANGED << mainQuiet, connQuiet, cOut, cIn, bufrw, toTarget, sdial, dreq,
                  uHead, uOut, uIn, br, toClient >>

\* Lines 144-151: the CONNECT request, with the credentials of the upstream
\* URL in a Basic Proxy-Authorization header
ConnectRequest(d, addr) ==
  [ target |-> addr, Host |-> addr,
    basic |-> IF d.User.set
              THEN EncodeToString(d.User.Username \o <<":">> \o d.User.Password)
              ELSE << >> ]

\* Lines 153-156: the request is written; on failure the connection is closed
HttpConnectWrite(ok) ==
  /\ spc = "write"
  /\ IF ok
     THEN /\ dreq' = ConnectRequest(sdial, TargetAddr)
          /\ spc' = "read"
          /\ UNCHANGED << dconn, derr >>
     ELSE /\ dconn' = "closed"
          /\ derr' = TRUE
          /\ spc' = "reply"
          /\ UNCHANGED dreq
  /\ UNCHANGED << mainQuiet, connQuiet, cOut, cIn, bufrw, toTarget, sdial,
                  uHead, uOut, uIn, br, toClient >>

\* the upstream answers the request with a response head
UpstreamRespond(status) ==
  /\ dreq # NoDialReq
  /\ uHead = 0
  /\ dconn = "open"
  /\ uHead' = status
  /\ UNCHANGED << mainQuiet, connQuiet, spc, cOut, cIn, bufrw, toTarget, sdial, dconn,
                  dreq, derr, uOut, uIn, br, toClient >>

\* the upstream sends its next payload byte behind a 200 head
UpstreamSend ==
  /\ uHead = 200
  /\ dconn = "open"
  /\ Len(uOut) < MaxPayload
  /\ uOut' = Append(uOut, Len(uOut) + 1)
  /\ uIn' = Append(uIn, Len(uOut) + 1)
  /\ UNCHANGED << mainQuiet, connQuiet, spc, cOut, cIn, bufrw, toTarget, sdial, dconn,
                  dreq, derr, uHead, br, toClient >>

\* faulty variant: the connection is left open when the status is not 200
HttpConnectReadResponse_LeavesOpen(ok) ==
  /\ spc = "read"
  /\ IF ~ok
     THEN dconn' = "closed" /\ derr' = TRUE /\ UNCHANGED << br, uIn >>
     ELSE /\ uHead # 0
          /\ br' = uIn
          /\ uIn' = << >>
          /\ derr' = (uHead # 200)
          /\ UNCHANGED dconn
  /\ spc' = "reply"
  /\ UNCHANGED << mainQuiet, connQuiet, cOut, cIn, bufrw, toTarget, sdial, dreq,
                  uHead, uOut, toClient >>

\* Lines 158-169: http.ReadResponse through a new bufio.Reader, whose Read
\* takes the head together with what has arrived behind it.  A read error
\* or a status other than 200 closes the connection and is an error; on 200
\* the connection is returned, the reader is not.
HttpConnectReadResponse(ok) ==
  /\ spc = "read"
  /\ IF ~ok
     THEN dconn' = "closed" /\ derr' = TRUE /\ UNCHANGED << br, uIn >>
     ELSE /\ uHead # 0
          /\ br' = uIn
          /\ uIn' = << >>
          /\ IF uHead # 200
             THEN dconn' = "closed" /\ derr' = TRUE
             ELSE UNCHANGED << dconn, derr >>
  /\ spc' = "reply"
  /\ UNCHANGED << mainQuiet, connQuiet, cOut, cIn, bufrw, toTarget, sdial, dreq,
                  uHead, uOut, toClient >>

\* Lines 216-224 up to the start of relay: 502 and Close after a failed dial,
\* 200 after a successful one
ProxyReply ==
  /\ spc = "reply"
  /\ IF derr
     THEN /\ wrote' = [ wrote EXCEPT ![1] = ConnWrite(1, Line502) ]
          /\ clientConn' = [ clientConn EXCEPT ![1] = "closed" ]
          /\ spc' = "failed"
     ELSE /\ wrote' = [ wrote EXCEPT ![1] = ConnWrite(1, Line200) ]
          /\ spc' = "relay"
          /\ UNCHANGED clientConn
  /\ UNCHANGED << mainQuiet, userConns, registered, cOut, cIn, bufrw, toTarget, sdial,
                  dconn, dreq, derr, uHead, uOut, uIn, br, toClient >>

\* Line 178, io.Copy(b, a): what has arrived from the client is read from
\* the connection and written to the target connection
CopyClientToTarget ==
  /\ spc = "relay"
  /\ cIn # << >>
  /\ toTarget' = toTarget \o cIn
  /\ cIn' = << >>
  /\ UNCHANGED << mainQuiet, connQuiet, spc, cOut, bufrw, sdial, dconn, dreq, derr,
                  uHead, uOut, uIn, br, toClient >>

\* Line 177, io.Copy(a, b): what has arrived from the upstream is read from
\* the connection and written to the client connection
CopyTargetToClient ==
  /\ spc = "relay"
  /\ uIn # << >>
  /\ toClient' = toClient \o uIn
  /\ uIn' = << >>
  /\ UNCHANGED << mainQuiet, connQuiet, spc, cOut, cIn, bufrw, toTarget, sdial, dconn,
                  dreq, derr, uHead, uOut, br >>

\* Lines 179, 174-175: a copy has ended, relay closes both connections
RelayEnd ==
  /\ spc = "relay"
  /\ dconn' = "closed"
  /\ clientConn' = [ clientConn EXCEPT ![1] = "closed" ]
  /\ spc' = "closed"
  /\ UNCHANGED << mainQuiet, userConns, registered, wrote, cOut, cIn, bufrw, toTarget,
                  sdial, dreq, derr, uHead, uOut, uIn, br, toClient >>

NextStream ==
  \/ ClientSend
  \/ ProxyHijack
  \/ \E ok \in BOOLEAN : HttpConnectDialTimeout(ok)
  \/ \E ok \in BOOLEAN : HttpConnectWrite(ok)
  \/ \E status \in Statuses : UpstreamRespond(status)
  \/ UpstreamSend
  \/ \E ok \in BOOLEAN : HttpConnectReadResponse(ok)
  \/ ProxyReply
  \/ CopyClientToTarget
  \/ CopyTargetToClient
  \/ RelayEnd

SpecStream == InitStream /\ [][NextStream]_vars

(***************************************************************************)
(* Properties.                                                             *)
(***************************************************************************)
\* the handler of t runs and holds a hijacked connection
Running(t) == tpc[t] \in { "register", "dial", "relay" }

\* setUpstreamHandler of a is at line 83: closeUserConns has returned
AtReturn(a) == apc[a] = "closing" /\ closed[a] = Len(conns[a])

\* the connections closeUserConns of a has taken and not closed yet
Pending(a) ==
  IF apc[a] = "closing"
  THEN { conns[a][i] : i \in (closed[a] + 1)..Len(conns[a]) }
  ELSE {}

\* C1 (as stated): when an admin update is about to return, every connection
\* that was registered for its user before its drain step has been closed.
C1_AllClosedAtReturn ==
  \A a \in Admins : AtReturn(a) => \A c \in drainSaw[a] : clientConn[c] = "closed"

\* C1 (amended): when an admin update is about to return, every connection
\* that was registered for its user before its drain step has been closed,
\* or is held by a concurrent update for the same user that took it in its
\* own drain and has not closed it yet; and a registered connection whose
\* handler has returned is closed.
C1_ClosedOrTakenAtReturn ==
  /\ \A a \in Admins : AtReturn(a) =>
       \A c \in drainSaw[a] :
         \/ clientConn[c] = "closed"
         \/ \E b \in Admins \ {a} : auser[b] = auser[a] /\ c \in Pending(b)
  /\ \A c \in registered : tpc[c] = "done" => clientConn[c] = "closed"

\* an update is about to return after closing the connection of a handler
\* that is still dialing or relaying
C1_Witness ==
  \E a \in Admins : /\ AtReturn(a)
                    /\ \E c \in drainSaw[a] : c \in Range(conns[a]) /\ Running(c)

\* the user keys of either registry, before or after a step
KeysAround ==
  DOMAIN upstreams \cup DOMAIN upstreams' \cup DOMAIN userConns \cup DOMAIN userConns'

\* m and n agree on key k: both lack it, or both map it to the same value
SameAt(m, n, k) ==
  /\ k \in DOMAIN m <=> k \in DOMAIN n
  /\ k \in DOMAIN m => m[k] = n[k]

\* admin request a takes a step of its update
UpdateStep(a) ==
  /\ apc[a] \in { "replace", "drain", "closing" }
  /\ apc'[a] # apc[a] \/ closed'[a] # closed[a]

\* C2: a step of an admin update for user A leaves the upstream entry and the
\* connection entry of every other user as they were, and changes the status
\* of no connection other than those of running tunnels of A.
C2_OtherUsersUntouched ==
  [][ \A a \in Admins : UpdateStep(a) =>
        /\ \A k \in KeysAround \ { auser[a] } :
             SameAt(upstreams, upstreams', k) /\ SameAt(userConns, userConns', k)
        /\ \A c \in Tunnels :
             clientConn'[c] # clientConn[c] => Running(c) /\ tuser[c] = auser[a] ]_vars

\* an update has closed a connection of its user while a tunnel of another
\* user, who has an upstream entry and a connection entry, is relaying
C2_Witness ==
  \E a \in Admins, c \in Tunnels :
    /\ apc[a] = "closing" /\ closed[a] >= 1
    /\ tpc[c] = "relay" /\ tuser[c] # auser[a] /\ clientConn[c] = "open"
    /\ tuser[c] \in DOMAIN upstreams /\ c \in Range(ConnsOf(userConns, tuser[c]))

\* the upstream in force for the user of t when t looked it up
SpecAtLookup(t) == IF pickSaw[t].set THEN Upstream(pickSaw[t].raw) ELSE DirectUpstream

\* C3: a tunnel of user U uses the upstream of the last replacement made for
\* U before its lookup (the direct default if there was none), and the dialer
\* whose Dial it calls is the one built from that upstream; replacements for
\* other users do not enter.
C3_LastWriteWins ==
  \A t \in Tunnels :
    /\ Running(t) => tup[t] = SpecAtLookup(t)
    /\ tpc[t] = "relay" => dialedVia[t] = dialerFor(SpecAtLookup(t)).dialer

\* a tunnel relays through the upstream of the second update request while a
\* tunnel of another user relays through a different upstream
C3_Witness ==
  \E t, o \in Tunnels :
    /\ tpc[t] = "relay" /\ pickSaw[t].set /\ pickSaw[t].raw = RawHttp
    /\ dialedVia[t].kind = "httpConnect"
    /\ tpc[o] = "relay" /\ tuser[o] # tuser[t] /\ dialedVia[o] # dialedVia[t]

\* C5 (as stated): a connection whose handler has returned is no longer in
\* the connection registry.
C5_RemovedAtTunnelEnd ==
  \A t \in Tunnels : tpc[t] = "done" /\ t \in registered => t \notin Held(userConns)

\* C6: a client connection on which the 200 line has been written has been
\* registered; while its handler relays and the connection is open, it is in
\* the entry of the handler's user, or an update has taken it in its drain
\* and is about to close it.
C6_RegisteredBefore200 ==
  \A t \in Tunnels :
    Line200 \in Range(wrote[t]) =>
      /\ t \in registered
      /\ tpc[t] = "relay" /\ clientConn[t] = "open" =>
           \/ t \in Range(ConnsOf(userConns, tuser[t]))
           \/ \E a \in Admins : t \in Pending(a)

\* a tunnel has written 200 and relays
C6_Witness ==
  \E t \in Tunnels : tpc[t] = "relay" /\ Line200 \in Range(wrote[t]) /\ t \in registered

\* the dial of t has returned (its handler relays or has returned after hijacking)
DialReturned(t) == tpc[t] = "relay" \/ (tpc[t] = "done" /\ clientConn[t] # "http")

\* C10 (as stated): once the dial of a hijacked tunnel has returned, exactly
\* one status line has been written: 502 with the client connection closed
\* and no relay, or 200 with a target connection opened and relay entered.
C10_ExactlyOneLine ==
  \A t \in Tunnels : DialReturned(t) =>
    \/ /\ wrote[t] = << Line502 >>
       /\ clientConn[t] = "closed" /\ targetConn[t] = "none" /\ copying[t] + done[t] = 0
    \/ /\ wrote[t] = << Line200 >>
       /\ targetConn[t] # "none" /\ copying[t] + done[t] > 0

\* C10 (amended): once the dial of a hijacked tunnel has returned, at most one
\* status line has been written: after a failed dial 502 or nothing, with the
\* client connection closed and no relay; after a successful dial 200 or
\* nothing, with a target connection opened and relay entered.  Nothing is
\* written only on a client connection that an update had drained and closed.
C10_AtMostOneLine ==
  \A t \in Tunnels : DialReturned(t) =>
    /\ \/ /\ wrote[t] \in { << Line502 >>, << >> }
          /\ clientConn[t] = "closed" /\ targetConn[t] = "none" /\ copying[t] + done[t] = 0
       \/ /\ wrote[t] \in { << Line200 >>, << >> }
          /\ targetConn[t] # "none" /\ copying[t] + done[t] > 0
    /\ wrote[t] = << >> => clientConn[t] = "closed" /\ t \notin Held(userConns)

\* a tunnel relays without any status line, another wrote 502 and was closed
C10_Witness ==
  \E t, o \in Tunnels :
    /\ tpc[t] = "relay" /\ wrote[t] = << >>
    /\ tpc[o] = "done" /\ wrote[o] = << Line502 >>

\* C4: a tunnel whose user had no upstream replacement before its lookup
\* (rejected updates and updates for other users do not count) uses the
\* direct upstream and dials through the environment dialer.
C4_DirectWithoutUpdate ==
  \A t \in Tunnels :
    Running(t) /\ ~pickSaw[t].set =>
      /\ tup[t] = DirectUpstream
      /\ tpc[t] = "relay" => dialedVia[t].kind = "environment"

\* a tunnel relays on the direct default although some user has an upstream
\* entry and an update was rejected
C4_Witness ==
  \E t \in Tunnels :
    /\ tpc[t] = "relay" /\ ~pickSaw[t].set /\ dialedVia[t].kind = "environment"
    /\ DOMAIN upstreams # {} /\ tuser[t] \notin DOMAIN upstreams
    /\ \E a \in Admins : astatus[a] = 400

\* the handler of t takes its first step (lines 183-211)
BeginStep(t) == tpc[t] = "begin" /\ tpc'[t] # "begin"

\* the step is not a hijack, a registration or a dial, and writes no registry
NothingTouched(t) ==
  /\ clientConn'[t] = "http" /\ targetConn'[t] = "none" /\ wrote'[t] = << >>
  /\ UNCHANGED << upstreams, userConns, registered >>

\* C7 (as stated): a request with good credentials and a method other than
\* CONNECT is answered 400 and stops, whatever upstream is stored.
C7_NonConnectIs400 ==
  [][ \A t \in Tunnels :
        BeginStep(t) /\ treq[t].auth \in GoodAuths /\ treq[t].method # "CONNECT" =>
          tresp'[t].status = 400 /\ tpc'[t] = "done" /\ NothingTouched(t) ]_vars

\* C8: a request whose header is absent, has a scheme token other than basic
\* (or no credentials after it) or holds undecodable base64 is answered 407
\* with a challenge and stops: no hijack, no registration, no dial, and both
\* registries as they were.
C8_BadAuthIs407 ==
  [][ \A t \in Tunnels :
        BeginStep(t) /\ treq[t].auth \in BadAuths =>
          /\ tresp'[t] = [ status |-> 407, challenge |-> TRUE ]
          /\ tpc'[t] = "done"
          /\ NothingTouched(t) ]_vars

\* both requests were answered 407 while some user has an upstream entry
C8_Witness ==
  /\ \A t \in Tunnels : tresp[t] = [ status |-> 407, challenge |-> TRUE ]
  /\ DOMAIN upstreams # {}

\* the upstream strings url.Parse rejects
BadRaws == { RawNoScheme, RawBadPort }

\* the status of an admin request that is rejected, 0 if it is not
RejectStatus(r) ==
  IF r.method # "POST" THEN 405
  ELSE IF ~r.body.json THEN 400
  ELSE IF r.body.Upstream \in BadRaws THEN 400
  ELSE 0

\* C9: a non-POST admin call is answered 405, a body that is not JSON or an
\* upstream string that does not parse 400, and each leaves both registries
\* and every connection as they were; any other call goes on to replace the
\* entry of its user, drain that user's connections and answer 204, and no
\* entry is replaced or drained but by such a call, for its own user.
C9_RejectedChangesNothing ==
  [][ /\ \A a \in Admins :
          /\ apc[a] = "begin" /\ apc'[a] # "begin" =>
               IF RejectStatus(areq[a]) # 0
               THEN /\ astatus'[a] = RejectStatus(areq[a]) /\ apc'[a] = "done"
                    /\ UNCHANGED << upstreams, userConns, clientConn, targetConn >>
               ELSE /\ apc'[a] = "replace" /\ astatus'[a] = 0
                    /\ auser'[a] = areq[a].body.User
                    /\ aup'[a].Raw = areq[a].body.Upstream
          /\ apc[a] = "closing" /\ apc'[a] = "done" => astatus'[a] = 204
          /\ astatus'[a] = 204 /\ astatus[a] # 204 => apc[a] = "closing"
      /\ upstreams' # upstreams =>
            \E a \in Admins :
              /\ apc[a] = "replace" /\ apc'[a] = "drain" /\ RejectStatus(areq[a]) = 0
              /\ \A k \in KeysAround \ { areq[a].body.User } : SameAt(upstreams, upstreams', k)
              /\ upstreams'[areq[a].body.User].Raw = areq[a].body.Upstream
      /\ DOMAIN userConns \ DOMAIN userConns' # {} =>
            \E a \in Admins :
              /\ apc[a] = "drain" /\ apc'[a] = "closing" /\ RejectStatus(areq[a]) = 0
              /\ DOMAIN userConns \ DOMAIN userConns' = { areq[a].body.User } ]_vars

\* one update was rejected with 405 and one with 400 while a user has an
\* upstream entry and a registered connection
C9_Witness ==
  /\ \E a \in Admins : astatus[a] = 405
  /\ \E a \in Admins : astatus[a] = 400
  /\ registered # {}

\* the schemes dialerFor builds a dialer for
SupportedSchemes ==
  { <<"d","i","r","e","c","t">>, <<"s","o","c","k","s","5">>,
    <<"h","t","t","p">>, <<"h","t","t","p","s">> }

\* the stored upstream of the user of t's request has a scheme without dialer
StoredUnsupported(t) ==
  LET u == usernameFromRequest(treq[t].auth)
      user == u.user
  IN  /\ u.err = "nil"
      /\ user \in DOMAIN upstreams
      /\ upstreams[user].Scheme \notin SupportedSchemes

\* C11 (as stated): a CONNECT request of a user whose stored upstream has an
\* unsupported scheme fails, and the failure is reported as a status line
\* written on the detached client connection, which is then closed.
C11_UnsupportedOnRawConn ==
  [][ \A t \in Tunnels :
        BeginStep(t) /\ treq[t].method = "CONNECT" /\ StoredUnsupported(t) =>
          /\ tpc'[t] = "done" /\ targetConn'[t] = "none"
          /\ wrote'[t] # << >> /\ clientConn'[t] = "closed" ]_vars

\* relay was entered by t and has returned
RelayReturned(t) == tpc[t] = "done" /\ targetConn[t] # "none"

\* C13 (as stated): when relay has returned, both copy goroutines have ended.
C13_BothCopiesAwaited ==
  \A t \in Tunnels : RelayReturned(t) => copying[t] = 0

\* C14: when relay has returned, at least one copy has ended and both the
\* client and the target connection are closed; while relay runs and no copy
\* has ended, the target connection is open.
C14_OneEndedBothClosed ==
  \A t \in Tunnels :
    /\ RelayReturned(t) =>
         copying[t] <= 1 /\ clientConn[t] = "closed" /\ targetConn[t] = "closed"
    /\ tpc[t] = "relay" => targetConn[t] = "open"

\* relay has returned after one copy ended, the other still being inside
\* io.Copy, and both connections are closed
C14_Witness ==
  \E t \in Tunnels :
    /\ RelayReturned(t) /\ copying[t] = 1 /\ wrote[t] = << Line200 >>
    /\ clientConn[t] = "closed" /\ targetConn[t] = "closed"

\* the handler of t closes its client connection: dial failure or relay return
HandlerClose(t) == tpc[t] \in { "dial", "relay" } /\ tpc'[t] = "done"

\* closeUserConns of a is inside its loop and takes a step
LoopStep(a) ==
  /\ apc[a] = "closing" /\ closed[a] < Len(conns[a])
  /\ apc'[a] # apc[a] \/ closed'[a] # closed[a]

\* C19: a close of a client connection that is already closed, by its handler
\* after an update closed it or by an update after its handler closed it,
\* leaves the connection closed, both registries and every other connection
\* as they were, and the closing operation goes on as after a first close:
\* the handler returns, the loop moves to its next connection.
C19_SecondCloseAbsorbed ==
  [][ /\ \A t \in Tunnels :
          HandlerClose(t) /\ clientConn[t] = "closed" =>
            /\ clientConn' = clientConn
            /\ UNCHANGED << upstreams, userConns, avars >>
      /\ \A a \in Admins :
          LoopStep(a) /\ clientConn[conns[a][closed[a] + 1]] = "closed" =>
            /\ clientConn' = clientConn
            /\ UNCHANGED << upstreams, userConns, targetConn, tpc >>
            /\ apc'[a] = "closing" /\ closed'[a] = closed[a] + 1
            /\ conns'[a] = conns[a] /\ astatus'[a] = 0 ]_vars

\* a connection was closed on both paths: an update has closed it in its loop
\* and its handler has returned from relay
C19_Witness ==
  \E a \in Admins, i \in 1..NumTunnels :
    /\ apc[a] = "closing" /\ i <= closed[a]
    /\ RelayReturned(conns[a][i]) /\ clientConn[conns[a][i]] = "closed"

\* the upstream a lookup for user u would return now
CurrentEntry(u) == IF u \in DOMAIN upstreams THEN upstreams[u] ELSE DirectUpstream

\* an update for user u has replaced the entry and has not returned
InProgress(u) ==
  \E a \in Admins : apc[a] \in { "drain", "closing" } /\ areq[a].body.User = u

\* t has registered, its client connection is open and the upstream it
\* looked up is no longer the entry of its user
Stale(t) ==
  /\ tpc[t] \in { "dial", "relay" } /\ clientConn[t] = "open"
  /\ tup[t] # CurrentEntry(tuser[t])

\* every open stale tunnel of a user without update in progress registered
\* after the drain of the update that overwrote the entry it looked up
StaleRegisteredAfterDrain ==
  \A t \in Tunnels :
    Stale(t) /\ ~InProgress(tuser[t]) => overwrittenBy[t] # 0 /\ regAfterDrain[t]

\* an update that has left its loop has closed every connection it took
TakenAreClosed ==
  \A a \in Admins : AtReturn(a) => \A c \in Range(conns[a]) : clientConn[c] = "closed"

\* update a takes its drain step
DrainStep(a) == apc[a] = "drain" /\ apc'[a] = "closing"

\* C12 (as stated): every open stale tunnel of a user without update in
\* progress registered after the drain of the update that replaced its
\* upstream; and an update takes in its drain, and has closed when it
\* returns, every connection registered between its replacement and its drain.
C12_WindowClosedByThatUpdate ==
  [][ /\ StaleRegisteredAfterDrain' /\ TakenAreClosed'
      /\ \A a \in Admins : DrainStep(a) => betweenSaw[a] \subseteq Range(conns'[a])
    ]_vars

\* C12 (amended): every open stale tunnel of a user without update in
\* progress registered after the drain of the update that replaced its
\* upstream; and every connection registered between the replacement and the
\* drain of an update is taken by its drain, and closed when it returns,
\* unless a concurrent update for the same user took it first and has closed
\* it or is about to.
C12_WindowClosedBySomeUpdate ==
  [][ /\ StaleRegisteredAfterDrain' /\ TakenAreClosed'
      /\ \A a \in Admins : DrainStep(a) =>
            \A c \in betweenSaw[a] :
              \/ c \in Range(conns'[a])
              \/ clientConn[c] = "closed"
              \/ \E b \in Admins \ {a} :
                    areq[b].body.User = areq[a].body.User /\ c \in Pending(b)
    ]_vars

\* a tunnel that registered after the drain of the update that replaced its
\* upstream relays on the stale upstream with no update in progress for its
\* user, while a connection has registered between the replacement and the
\* drain of an update for another user
C12_Witness ==
  \E t \in Tunnels, a \in Admins :
    /\ tpc[t] = "relay" /\ Stale(t) /\ ~InProgress(tuser[t]) /\ regAfterDrain[t]
    /\ apc[a] = "drain" /\ betweenSaw[a] # {}

\* C15: a tunnel whose client connection was closed while its handler was
\* dialing or relaying (which only an update does) ends: its handler returns
\* and the target connection, if it opened one, is closed.
C15_InvalidatedTerminates ==
  \A t \in Tunnels :
    (Running(t) /\ clientConn[t] = "closed")
      ~> (tpc[t] = "done" /\ targetConn[t] # "open")

\* a tunnel whose client connection an update closed during the dial went on
\* to relay (no status line could be written) and has ended with its target
\* connection closed
C15_Witness ==
  \E t \in Tunnels :
    /\ tpc[t] = "done" /\ wrote[t] = << >>
    /\ clientConn[t] = "closed" /\ targetConn[t] = "closed"

\* C20: a copy goroutine never finds done full, done never holds more than
\* its capacity, and a copy goroutine still running when relay has returned
\* ends.
C20_LateCopyEnds ==
  /\ [](\A t \in Tunnels : /\ done[t] <= DoneCap
                            /\ copying[t] > 0 => done[t] < DoneCap)
  /\ \A t \in Tunnels : (RelayReturned(t) /\ copying[t] > 0) ~> (copying[t] = 0)

\* relay has returned, both copy goroutines have ended and the value of the
\* second is left in done
C20_Witness ==
  \E t \in Tunnels : RelayReturned(t) /\ copying[t] = 0 /\ done[t] = 1

\* Dial has returned
DialDone == spc \in { "reply", "relay", "failed", "closed" }

\* C16: when httpConnectDialer.Dial has returned, either it returned no
\* error, the response status was 200 and the connection it returns is open
\* as long as the handler has not closed it, or it returned an error and the
\* connection it opened, if any, is closed; a status other than 200 is an
\* error.
C16_FailedDialClosesConn ==
  DialDone =>
    /\ ~derr => uHead = 200 /\ dreq # NoDialReq
    /\ ~derr /\ spc \in { "reply", "relay" } => dconn = "open"
    /\ derr => dconn \in { "none", "closed" }
    /\ uHead \notin { 0, 200 } => derr /\ dconn = "closed"
    /\ derr /\ spc # "reply" => spc = "failed"

\* the upstream answered 407: Dial returned an error with the connection
\* closed and the handler wrote 502
C16_Witness ==
  /\ spc = "failed" /\ derr /\ uHead = 407 /\ dconn = "closed"
  /\ wrote[1] = << Line502 >>

\* p is an initial segment of s
IsPrefix(p, s) == Len(p) <= Len(s) /\ SubSeq(s, 1, Len(p)) = p

\* C17 (as stated): what the client has been sent after the status line is an
\* initial segment of what the upstream sent after its 200 head.
C17_UpstreamBytesInOrder == IsPrefix(toClient, uOut)

\* C18 (as stated): what the target has been sent is an initial segment of
\* what the client sent after the head of its CONNECT request.
C18_ClientBytesInOrder == IsPrefix(toTarget, cOut)

=============================================================================
